---- MODULE Spec2Model ----
(***************************************************************************)
(* Model of the URL Scam Detector backend (app.py): the /predict handler   *)
(* with its access gate, the trust list and rule chain of is_suspicious,   *)
(* extract_features, and the call of the pretrained classifier.            *)
(*                                                                         *)
(* A Python str is modelled as a tuple of one-character strings, so that   *)
(* endswith, split, lower, substring search and character counting are     *)
(* computed as the code computes them.                                     *)
(***************************************************************************)
EXTENDS Integers, Sequences, FiniteSets, TLC

\* ------------------------------------------------------------------------
\* Bounds of the model
\* ------------------------------------------------------------------------

\* largest number of entries of the JSON list in a request body
MaxBatch == 2

\* ------------------------------------------------------------------------
\* Python str operations used by app.py
\* ------------------------------------------------------------------------

UPPER == <<"A", "B", "C", "D", "E", "F", "G", "H", "I", "J", "K", "L", "M", "N", "O", "P", "Q", "R", "S", "T", "U", "V", "W", "X", "Y", "Z">>

LOWER == <<"a", "b", "c", "d", "e", "f", "g", "h", "i", "j", "k", "l", "m", "n", "o", "p", "q", "r", "s", "t", "u", "v", "w", "x", "y", "z">>

DIGITS == <<"0", "1", "2", "3", "4", "5", "6", "7", "8", "9">>

Range(s) == {s[i] : i \in 1..Len(s)}

\* str.lower() of one character
lower_char(c) ==
  IF \E i \in 1..Len(UPPER) : UPPER[i] = c
  THEN LOWER[CHOOSE i \in 1..Len(UPPER) : UPPER[i] = c]
  ELSE c

\* str.lower()
lower(s) == [i \in 1..Len(s) |-> lower_char(s[i])]

\* s.endswith(t)
endswith(s, t) ==
  /\ Len(t) <= Len(s)
  /\ SubSeq(s, Len(s) - Len(t) + 1, Len(s)) = t

\* s.startswith(t)
startswith(s, t) ==
  /\ Len(t) <= Len(s)
  /\ SubSeq(s, 1, Len(t)) = t

\* t in s (substring test)
contains(s, t) ==
  \E i \in 1..(Len(s) - Len(t) + 1) : SubSeq(s, i, i + Len(t) - 1) = t

\* s.split('.')[-1]: what follows the last '.', the whole string without one
split_last(s) ==
  LET dots == {i \in 1..Len(s) : s[i] = "."}
  IN IF dots = {} THEN s
     ELSE SubSeq(s, (CHOOSE i \in dots : \A j \in dots : j <= i) + 1, Len(s))

\* sum(c in chars for c in s)
count_in(s, chars) == Cardinality({i \in 1..Len(s) : s[i] \in Range(chars)})

\* sum(word in s for word in words)
count_words(s, words) ==
  Cardinality({k \in 1..Len(words) : contains(s, words[k])})

\* urlparse(url).netloc: a scheme is split off at the first ':' when what
\* precedes it is a letter followed by scheme characters; the netloc is what
\* follows a leading '//' up to the first of '/', '?', '#'.
netloc(url) ==
  LET colons == {i \in 1..Len(url) : url[i] = ":"}
      c == IF colons = {} THEN 0 ELSE CHOOSE i \in colons : \A j \in colons : i <= j
      scheme_chars == Range(UPPER) \cup Range(LOWER) \cup Range(DIGITS) \cup {"+", "-", "."}
      has_scheme == /\ c > 1
                    /\ url[1] \in Range(UPPER) \cup Range(LOWER)
                    /\ \A j \in 1..(c - 1) : url[j] \in scheme_chars
      rest == IF has_scheme THEN SubSeq(url, c + 1, Len(url)) ELSE url
      delims == {i \in 3..Len(rest) : rest[i] \in {"/", "?", "#"}}
      stop == IF delims = {} THEN Len(rest) + 1
              ELSE CHOOSE i \in delims : \A j \in delims : i <= j
  IN IF Len(rest) >= 2 /\ rest[1] = "/" /\ rest[2] = "/"
     THEN SubSeq(rest, 3, stop - 1)
     ELSE << >>

\* ------------------------------------------------------------------------
\* Configuration data of app.py
\* ------------------------------------------------------------------------

TRUSTED_DOMAINS == <<
  <<"o", "u", "t", "l", "o", "o", "k", ".", "o", "f", "f", "i", "c", "e", ".", "c", "o", "m">>, <<"m", "a", "i", "l", ".", "g", "o", "o", "g", "l", "e", ".", "c", "o", "m">>, <<"y", "a", "h", "o", "o", ".", "c", "o", "m">>, <<"h", "o", "t", "m", "a", "i", "l", ".", "c", "o", "m">>, <<"i", "c", "l", "o", "u", "d", ".", "c", "o", "m">>,
  <<"q", "u", "e", "e", "n", "s", "u", ".", "c", "a">>, <<"h", "a", "r", "v", "a", "r", "d", ".", "e", "d", "u">>, <<"s", "t", "a", "n", "f", "o", "r", "d", ".", "e", "d", "u">>, <<"m", "i", "t", ".", "e", "d", "u">>, <<"o", "x", ".", "a", "c", ".", "u", "k">>,
  <<"p", "a", "y", "p", "a", "l", ".", "c", "o", "m">>, <<"s", "t", "r", "i", "p", "e", ".", "c", "o", "m">>, <<"b", "a", "n", "k", "o", "f", "a", "m", "e", "r", "i", "c", "a", ".", "c", "o", "m">>, <<"c", "h", "a", "s", "e", ".", "c", "o", "m">>, <<"w", "e", "l", "l", "s", "f", "a", "r", "g", "o", ".", "c", "o", "m">>,
  <<".", "g", "o", "v">>, <<".", "g", "o", "v", ".", "u", "k">>, <<"c", "a", "n", "a", "d", "a", ".", "c", "a">>,
  <<"a", "w", "s", ".", "a", "m", "a", "z", "o", "n", ".", "c", "o", "m">>, <<"c", "l", "o", "u", "d", "f", "l", "a", "r", "e", ".", "c", "o", "m">>, <<"a", "z", "u", "r", "e", ".", "m", "i", "c", "r", "o", "s", "o", "f", "t", ".", "c", "o", "m">>,
  <<"f", "a", "c", "e", "b", "o", "o", "k", ".", "c", "o", "m">>, <<"t", "w", "i", "t", "t", "e", "r", ".", "c", "o", "m">>, <<"l", "i", "n", "k", "e", "d", "i", "n", ".", "c", "o", "m">>, <<"i", "n", "s", "t", "a", "g", "r", "a", "m", ".", "c", "o", "m">>,
  <<"a", "m", "a", "z", "o", "n", ".", "c", "o", "m">>, <<"e", "b", "a", "y", ".", "c", "o", "m">>, <<"s", "h", "o", "p", "i", "f", "y", ".", "c", "o", "m">>, <<".", "c", "a">>, <<".", "e", "t">>, <<".", "o", "r", "g">>, <<".", "e", "d", "u">> >>

HIGH_RISK_KEYWORDS == << <<"o", "f", "f", "e", "r">>, <<"f", "r", "e", "e">>, <<"w", "i", "n">>, <<"b", "o", "n", "u", "s">>, <<"g", "i", "f", "t">> >>

SUSPICIOUS_TLDS == << <<"t", "k">>, <<"r", "u">>, <<"b", "i", "z">>, <<"c", "f">>, <<"x", "y", "z">> >>

SPECIAL_CHARS == << "$", "%", "&", "?", "-", "_", "!", "=", "@" >>

\* ------------------------------------------------------------------------
\* is_suspicious
\* ------------------------------------------------------------------------

\* any(domain.endswith(trusted) for trusted in TRUSTED_DOMAINS)
trusted_domain(url) ==
  \E k \in 1..Len(TRUSTED_DOMAINS) : endswith(netloc(url), TRUSTED_DOMAINS[k])

\* url.split('.')[-1] in SUSPICIOUS_TLDS
tld_check(url) == split_last(url) \in Range(SUSPICIOUS_TLDS)

\* keyword_check as it would be with the hyphen condition added
keyword_check_hyphen(url) ==
  /\ contains(lower(url), <<"-">>)
  /\ \E k \in 1..Len(HIGH_RISK_KEYWORDS) : contains(lower(url), HIGH_RISK_KEYWORDS[k])

\* any(keyword in url.lower() for keyword in HIGH_RISK_KEYWORDS)
keyword_check(url) ==
  \E k \in 1..Len(HIGH_RISK_KEYWORDS) : contains(lower(url), HIGH_RISK_KEYWORDS[k])

\* special_check with the comparison off by one
special_check_ge(url) == count_in(url, SPECIAL_CHARS) >= 3

\* sum(c in SPECIAL_CHARS for c in url) > 3
special_check(url) == count_in(url, SPECIAL_CHARS) > 3

\* is_suspicious with the keyword and the special-character checks exchanged
is_suspicious_reordered(url) ==
  IF trusted_domain(url)
  THEN [suspicious |-> FALSE, reason |-> "Trusted domain detected"]
  ELSE IF tld_check(url)
  THEN [suspicious |-> TRUE, reason |-> "Suspicious TLD detected"]
  ELSE IF special_check(url)
  THEN [suspicious |-> TRUE, reason |-> "Excessive special characters detected"]
  ELSE IF keyword_check(url)
  THEN [suspicious |-> TRUE, reason |-> "High-risk keyword detected"]
  ELSE [suspicious |-> FALSE, reason |-> "No explicit scam patterns detected"]

\* the (suspicious, reason) pair is_suspicious returns
is_suspicious(url) ==
  IF trusted_domain(url)
  THEN [suspicious |-> FALSE, reason |-> "Trusted domain detected"]
  ELSE IF tld_check(url)
  THEN [suspicious |-> TRUE, reason |-> "Suspicious TLD detected"]
  ELSE IF keyword_check(url)
  THEN [suspicious |-> TRUE, reason |-> "High-risk keyword detected"]
  ELSE IF special_check(url)
  THEN [suspicious |-> TRUE, reason |-> "Excessive special characters detected"]
  ELSE [suspicious |-> FALSE, reason |-> "No explicit scam patterns detected"]

\* ------------------------------------------------------------------------
\* extract_features
\* ------------------------------------------------------------------------

\* the dict extract_features returns, as its (key, value) items in order
extract_features(url) == <<
  [name |-> "web_traffic", value |-> 0],
  [name |-> "https", value |-> IF startswith(url, <<"h", "t", "t", "p", "s">>) THEN 1 ELSE 0],
  [name |-> "length_of_url", value |-> Len(url)],
  [name |-> "scam_keywords", value |-> count_words(lower(url), HIGH_RISK_KEYWORDS)],
  [name |-> "unusual_tlds", value |-> IF tld_check(url) THEN 1 ELSE 0],
  [name |-> "special_chars", value |-> count_in(url, SPECIAL_CHARS)] >>

\* ------------------------------------------------------------------------
\* The classifier loaded at startup
\* ------------------------------------------------------------------------

\* the keys of the dict extract_features returns, in order
EXTRACTED_NAMES == [i \in 1..Len(extract_features(<< >>)) |-> extract_features(<< >>)[i].name]

\* feature-name lists a pickled classifier may have been fitted on: the
\* extractor's own columns, the same columns in another order, and a list
\* with a column the extractor lacks
FeatureNameLists == {
  EXTRACTED_NAMES,
  <<"https", "web_traffic", "length_of_url", "scam_keywords", "unusual_tlds", "special_chars">>,
  <<"https", "length_of_url", "scam_score", "unusual_tlds", "special_chars", "subdomain_count">> }

\* outcomes of the startup try block: the object is loaded and has predict;
\* the file is missing or joblib.load raises (the name model stays unbound);
\* the loaded object has no predict (model is bound, the ValueError is logged)
Startups ==
  {[status |-> "loaded", feature_names |-> f] : f \in FeatureNameLists}
  \cup {[status |-> s, feature_names |-> << >>] : s \in {"missing", "load_error", "no_predict"}}

\* model_predict with an absent classifier answering like a loaded one
model_predict_absent(mdl, features) == {"label0", "label1"}

\* model.predict(features_df)[0]: the label, or the exception raised.  A
\* classifier handed columns other than those it was fitted on either
\* predicts from them or raises, depending on the library.
model_predict(mdl, features) ==
  IF mdl.status \in {"missing", "load_error"} THEN {"NameError"}
  ELSE IF mdl.status = "no_predict" THEN {"AttributeError"}
  ELSE IF [i \in 1..Len(features) |-> features[i].name] = mdl.feature_names
  THEN {"label0", "label1"}
  ELSE {"label0", "label1", "ValueError"}

\* ------------------------------------------------------------------------
\* Users
\* ------------------------------------------------------------------------

alice == [username |-> "alice", api_key |-> "k1", is_premium |-> FALSE]

bob == [username |-> "bob", api_key |-> "k2", is_premium |-> TRUE]

admin == [username |-> "admin", api_key |-> "test_api_key", is_premium |-> TRUE]

\* contents of the users table when the process starts
InitialUsers == {{}, {alice, bob}}

\* ------------------------------------------------------------------------
\* Requests
\* ------------------------------------------------------------------------

\* request.headers.get('Authorization'): absent, empty, or a key
Headers ==
  {[present |-> FALSE, value |-> ""]}
  \cup {[present |-> TRUE, value |-> v] : v \in {"", "k1", "k2", "test_api_key"}}

Schemes == { <<"h", "t", "t", "p", ":", "/", "/">>, <<"h", "t", "t", "p", "s", ":", "/", "/">>, << >> }

Hosts == { <<"p", "a", "y", "p", "a", "l", ".", "c", "o", "m">>, <<"m", "y", "-", "s", "t", "a", "r", "t", "u", "p", ".", "i", "o">>, <<"f", "r", "e", "e", "-", "b", "o", "n", "u", "s", "-", "o", "f", "f", "e", "r", ".", "x", "y", "z">>,
           <<"s", "e", "c", "u", "r", "e", "-", "l", "o", "g", "i", "n", "-", "u", "p", "d", "a", "t", "e", ".", "c", "o", "m">>, <<"e", "x", "a", "m", "p", "l", "e", ".", "c", "o", "m">>, <<"f", "r", "e", "e", "s", "t", "u", "f", "f", ".", "c", "o", "m">>,
           <<"f", "r", "e", "e", "-", "g", "i", "f", "t", ".", "o", "r", "g">>, <<"W", "I", "N", "N", "E", "R", ".", "i", "o">>, <<"s", "e", "c", "u", "r", "e", "-", "a", ".", "i", "o">> }

Paths == { << >>, <<"/", "l", "o", "g", "i", "n">>, <<"/", "a", "?", "b", "=", "1", "&", "c", "=", "2">>, <<"/", "a", "?", "b", "=", "x", "&", "c">>, <<"/", "a", ".", "x", "y", "z">> }

Urls == {s \o h \o p : s \in Schemes, h \in Hosts, p \in Paths}

\* first element of the JSON list: an object with or without 'url', a number
FirstEntries ==
  {[type |-> "dict", has_url |-> TRUE, url |-> u] : u \in Urls}
  \cup {[type |-> "dict", has_url |-> FALSE, url |-> << >>],
        [type |-> "int", has_url |-> FALSE, url |-> << >>]}

\* further elements of the JSON list
RestEntries ==
  {[type |-> "dict", has_url |-> TRUE, url |-> <<"h", "t", "t", "p", ":", "/", "/", "f", "r", "e", "e", "-", "b", "o", "n", "u", "s", "-", "o", "f", "f", "e", "r", ".", "x", "y", "z">>]}

RestSeqs == UNION {[1..n -> RestEntries] : n \in 0..(MaxBatch - 1)}

\* request.get_json(): a list, null, or a non-empty object
Payloads ==
  {[kind |-> "list", items |-> <<f>> \o r] : f \in FirstEntries, r \in RestSeqs}
  \cup {[kind |-> k, items |-> << >>] : k \in {"list", "null", "dict"}}

NoRequest == [api_key |-> [present |-> FALSE, value |-> ""],
              data |-> [kind |-> "null", items |-> << >>]]

\* ------------------------------------------------------------------------
\* predict
\* ------------------------------------------------------------------------

\* jsonify(...), status: an error body or a results body
Reply(status, error, results) ==
  [status |-> status, error |-> error, results |-> results]

NoResponse == Reply(0, "", << >>)

\* one way predict ends: its response, the stages it went through, and the
\* feature vectors it handed to the classifier
Run(response, log, model_calls) ==
  [response |-> response, log |-> log, model_calls |-> model_calls]

UNEXPECTED == "An unexpected error occurred. Please try again later."

\* not api_key
not_api_key(api_key) == ~api_key.present \/ api_key.value = ""

\* User.query.filter_by(api_key=api_key).first(), as the set of matches
user_lookup(db, api_key) == {u \in db : u.api_key = api_key.value}

\* the premium check left out
not_premium_skipped(user) == FALSE

\* not user.is_premium
not_premium(user) == ~user.is_premium

\* not data or 'url' not in data[0], and the exceptions it raises
payload_check(data) ==
  IF data.kind = "null" \/ (data.kind = "list" /\ Len(data.items) = 0) THEN "invalid"
  ELSE IF data.kind = "dict" THEN "KeyError"
  ELSE IF data.items[1].type # "dict" THEN "TypeError"
  ELSE IF ~data.items[1].has_url THEN "invalid"
  ELSE "ok"

\* the model stage for one classifier outcome
model_stage(url, features, outcome) ==
  IF outcome \in {"label0", "label1"}
  THEN Run(Reply(200, "", << [url |-> url,
                              prediction |-> IF outcome = "label1" THEN "Scam" ELSE "Legitimate",
                              reason |-> "Predicted by ML model"] >>),
           <<"is_suspicious", "extract_features", "model.predict">>, <<features>>)
  ELSE Run(Reply(500, UNEXPECTED, << >>),
           <<"is_suspicious", "extract_features", "model.predict">>,
           IF outcome = "ValueError" THEN <<features>> ELSE << >>)

\* classify without the early return on a suspicious URL
classify_fallthrough(mdl, url) ==
  {model_stage(url, extract_features(url), o) : o \in model_predict(mdl, extract_features(url))}

\* predict from the call of is_suspicious on: the ways it can end
classify(mdl, url) ==
  LET s == is_suspicious(url)
      features == extract_features(url)
  IN IF s.suspicious
     THEN {Run(Reply(200, "", << [url |-> url, prediction |-> "Scam", reason |-> s.reason] >>),
               <<"is_suspicious">>, << >>)}
     ELSE {model_stage(url, features, o) : o \in model_predict(mdl, features)}

\* prefix the stages of the access gate to the stages of a run
After(gate, run) == Run(run.response, gate \o run.log, run.model_calls)

\* predict: the ways the handler can end for a request
predict_runs(db, mdl, req) ==
  LET matches == user_lookup(db, req.api_key)
      user == CHOOSE u \in matches : TRUE
      check == payload_check(req.data)
  IN IF not_api_key(req.api_key)
     THEN {Run(Reply(401, "Missing API Key in Authorization header.", << >>),
               <<"authorization">>, << >>)}
     ELSE IF matches = {}
     THEN {Run(Reply(401, "Unauthorized: Invalid API Key.", << >>),
               <<"authorization", "user_lookup">>, << >>)}
     ELSE IF not_premium(user)
     THEN {Run(Reply(402, "Upgrade to Premium for advanced features.", << >>),
               <<"authorization", "user_lookup", "premium_check">>, << >>)}
     ELSE LET gate == <<"authorization", "user_lookup", "premium_check", "payload_check">>
          IN IF check = "invalid"
             THEN {Run(Reply(400, "Invalid payload. Ensure 'url' is provided in the request body.", << >>),
                       gate, << >>)}
             ELSE IF check = "KeyError"
             THEN {Run(Reply(400, "KeyError: 0", << >>), gate, << >>)}
             ELSE IF check = "TypeError"
             THEN {Run(Reply(500, UNEXPECTED, << >>), gate, << >>)}
             ELSE {After(gate, r) : r \in classify(mdl, req.data.items[1].url)}

\* ------------------------------------------------------------------------
\* State
\* ------------------------------------------------------------------------

VARIABLES
  model,        \* what the startup try block left in the global model
  users,        \* rows of the users table
  pc,           \* "idle", "pending" (a /predict request is dispatched), "done"
  request,      \* Authorization header and JSON body of the request
  response,     \* what predict returned
  log,          \* stages predict went through for the request
  model_calls   \* feature vectors predict handed to the classifier

vars == <<model, users, pc, request, response, log, model_calls>>

Init ==
  /\ model \in Startups
  /\ users \in InitialUsers
  /\ pc = "idle"
  /\ request = NoRequest
  /\ response = NoResponse
  /\ log = << >>
  /\ model_calls = << >>

\* a POST /predict arrives and is dispatched to the handler
Receive(api_key, data) ==
  /\ pc = "idle"
  /\ pc' = "pending"
  /\ request' = [api_key |-> api_key, data |-> data]
  /\ UNCHANGED <<model, users, response, log, model_calls>>

\* the handler predict runs to its return
predict ==
  /\ pc = "pending"
  /\ \E r \in predict_runs(users, model, request) :
       /\ response' = r.response
       /\ log' = r.log
       /\ model_calls' = r.model_calls
  /\ pc' = "done"
  /\ UNCHANGED <<model, users, request>>

\* the response is sent and the request context is popped
Teardown ==
  /\ pc = "done"
  /\ pc' = "idle"
  /\ request' = NoRequest
  /\ response' = NoResponse
  /\ log' = << >>
  /\ model_calls' = << >>
  /\ UNCHANGED <<model, users>>

\* add_api_key: insert the admin user; the unique columns make the commit
\* fail (500, nothing stored) when the username or the key is taken
add_api_key ==
  /\ users' = IF \E u \in users : u.username = admin.username \/ u.api_key = admin.api_key
              THEN users
              ELSE users \cup {admin}
  /\ UNCHANGED <<model, pc, request, response, log, model_calls>>

Next ==
  \/ \E h \in Headers, d \in Payloads : Receive(h, d)
  \/ predict
  \/ Teardown
  \/ add_api_key

Spec == Init /\ [][Next]_vars

TypeOK ==
  /\ model \in Startups
  /\ pc \in {"idle", "pending", "done"}
  /\ response.status \in {0, 200, 400, 401, 402, 500}

\* ------------------------------------------------------------------------
\* Vocabulary of the properties
\* ------------------------------------------------------------------------

Done == pc = "done"

InLog(stage) == \E i \in 1..Len(log) : log[i] = stage

\* the handler got as far as running the pipeline on the request's URL
Classified == Done /\ InLog("is_suspicious")

\* the URL the pipeline ran on
Url == request.data.items[1].url

\* the host of the URL ends with an entry of the trust list
Trusted(url) == \E t \in Range(TRUSTED_DOMAINS) : endswith(netloc(url), t)

\* the label after the last '.' is one of tk, ru, biz, cf, xyz
SuspiciousTld(url) == split_last(url) \in { <<"t", "k">>, <<"r", "u">>, <<"b", "i", "z">>, <<"c", "f">>, <<"x", "y", "z">> }

\* the lower-cased URL contains one of offer, free, win, bonus, gift
HasKeyword(url) ==
  \E w \in { <<"o", "f", "f", "e", "r">>, <<"f", "r", "e", "e">>, <<"w", "i", "n">>, <<"b", "o", "n", "u", "s">>, <<"g", "i", "f", "t">> } : contains(lower(url), w)

\* the lower-cased URL contains a keyword of the specification's longer list
HasListedKeyword(url) ==
  \E w \in { <<"o", "f", "f", "e", "r">>, <<"f", "r", "e", "e">>, <<"w", "i", "n">>, <<"b", "o", "n", "u", "s">>, <<"g", "i", "f", "t">>, <<"e", "x", "c", "l", "u", "s", "i", "v", "e">>, <<"h", "u", "r", "r", "y">>,
             <<"p", "r", "i", "z", "e">>, <<"j", "a", "c", "k", "p", "o", "t">>, <<"l", "o", "t", "t", "e", "r", "y">>, <<"r", "e", "w", "a", "r", "d">>, <<"d", "e", "a", "l">> } : contains(lower(url), w)

HasHyphen(url) == \E i \in 1..Len(url) : url[i] = "-"

\* the lower-cased URL contains a credential-phishing prefix
HasTyposquatPrefix(url) ==
  \E w \in { <<"l", "o", "g", "i", "n", "-">>, <<"v", "e", "r", "i", "f", "y", "-">>, <<"u", "p", "d", "a", "t", "e", "-">>, <<"s", "e", "c", "u", "r", "e", "-">>, <<"a", "c", "c", "o", "u", "n", "t", "-">>,
             <<"s", "i", "g", "n", "i", "n", "-">>, <<"a", "u", "t", "h", "-">> } : contains(lower(url), w)

\* the lower-cased URL contains a lookalike character
HasLookalike(url) == \E i \in 1..Len(url) : url[i] \in {"0", "1", "5", "3", "7", "@"}

\* number of characters of the URL in $ % & ? - _ ! = @
SpecialCount(url) ==
  Cardinality({i \in 1..Len(url) : url[i] \in {"$", "%", "&", "?", "-", "_", "!", "=", "@"}})

\* the response is the single verdict (prediction, reason)
Verdict(prediction, reason) ==
  /\ response.status = 200
  /\ Len(response.results) = 1
  /\ response.results[1].prediction = prediction
  /\ response.results[1].reason = reason

\* ------------------------------------------------------------------------
\* C1
\* ------------------------------------------------------------------------

\* C1: a URL whose host ends with a trusted suffix gets the verdict
\* Legitimate with reason "Trusted domain detected", and the classifier is
\* not consulted for it.
C1_TrustOverride ==
  (Classified /\ Trusted(Url)) =>
     /\ Verdict("Legitimate", "Trusted domain detected")
     /\ model_calls = << >>

\* ------------------------------------------------------------------------
\* C2
\* ------------------------------------------------------------------------

RuleOrder == <<"Suspicious TLD", "High-risk keyword", "Typosquatting prefix",
               "Lookalike characters", "Excess special characters">>

\* the rule of that name matches: one of the checks is_suspicious makes
\* fires (it has none for typosquatting prefixes and lookalike characters)
RuleMatches(k, url) ==
  IF RuleOrder[k] = "Suspicious TLD" THEN SuspiciousTld(url)
  ELSE IF RuleOrder[k] = "High-risk keyword" THEN HasKeyword(url)
  ELSE IF RuleOrder[k] = "Excess special characters" THEN SpecialCount(url) > 3
  ELSE FALSE

RuleReason(k) ==
  IF RuleOrder[k] = "Suspicious TLD" THEN "Suspicious TLD detected"
  ELSE IF RuleOrder[k] = "High-risk keyword" THEN "High-risk keyword detected"
  ELSE IF RuleOrder[k] = "Excess special characters" THEN "Excessive special characters detected"
  ELSE "no such check"

MatchingRules(url) == {k \in 1..Len(RuleOrder) : RuleMatches(k, url)}

FirstMatch(url) == CHOOSE k \in MatchingRules(url) : \A j \in MatchingRules(url) : k <= j

C3_Mirror ==
  (/\ Done /\ response.status = 200
   /\ request.data.kind = "list"
   /\ \A i \in 1..Len(request.data.items) :
        request.data.items[i].type = "dict" /\ request.data.items[i].has_url)
  => /\ Len(response.results) = Len(request.data.items)
     /\ \A i \in 1..Len(request.data.items) :
          response.results[i].url = request.data.items[i].url

\* ------------------------------------------------------------------------
\* C4
\* ------------------------------------------------------------------------

\* C4: when the classifier was not loaded at startup, a request whose URL
\* reaches the model stage (not trusted, no rule matched) fails with a
\* service error: no verdict is returned and no inference is run.
C4_ModelUnavailable ==
  (/\ Classified /\ model.status # "loaded"
   /\ ~Trusted(Url) /\ MatchingRules(Url) = {})
  => /\ response.status = 500
     /\ response.error # ""
     /\ response.results = << >>
     /\ model_calls = << >>

\* a URL no rule flags meets a model object without predict
C4_Witness ==
  /\ Classified /\ model.status = "no_predict"
  /\ ~Trusted(Url) /\ MatchingRules(Url) = {}
  /\ response.status = 500

\* ------------------------------------------------------------------------
\* C5
\* ------------------------------------------------------------------------

\* C5 (as claimed): a URL that is not trusted and has no suspicious TLD is
\* classified Scam by the high-risk keyword rule only if its lower-cased form
\* contains both a hyphen and a denylisted keyword.
C5_HyphenRequired ==
  (/\ Classified /\ ~Trusted(Url) /\ ~SuspiciousTld(Url)
   /\ Verdict("Scam", "High-risk keyword detected"))
  => (HasHyphen(lower(Url)) /\ HasListedKeyword(Url))

\* C5 (amended): a URL that is not trusted and has no suspicious TLD is
\* classified Scam by the high-risk keyword rule if and only if its
\* lower-cased form contains one of offer, free, win, bonus, gift; no hyphen
\* is needed.
C5_KeywordAlone ==
  (Classified /\ ~Trusted(Url) /\ ~SuspiciousTld(Url))
  => (Verdict("Scam", "High-risk keyword detected") <=> HasKeyword(Url))

\* a URL with a keyword and no hyphen is flagged by the keyword rule
C5_Witness ==
  /\ Classified /\ ~Trusted(Url) /\ ~SuspiciousTld(Url)
  /\ HasKeyword(Url) /\ ~HasHyphen(Url)
  /\ Verdict("Scam", "High-risk keyword detected")

\* ------------------------------------------------------------------------
\* C6
\* ------------------------------------------------------------------------

\* C6: a URL that is not trusted, matches neither the suspicious TLD rule nor
\* the keyword rule, and contains a typosquatting prefix gets the verdict
\* Scam with reason "Typosquatting pattern detected".
C6_Typosquatting ==
  (/\ Classified /\ ~Trusted(Url) /\ ~SuspiciousTld(Url)
   /\ ~HasListedKeyword(Url) /\ HasTyposquatPrefix(Url))
  => Verdict("Scam", "Typosquatting pattern detected")

\* ------------------------------------------------------------------------
\* C7
\* ------------------------------------------------------------------------

\* the URL matches no rule that precedes the special-character rule, in the
\* checks is_suspicious makes and in the specification's list alike
NoEarlierRule(url) ==
  /\ ~SuspiciousTld(url) /\ ~HasListedKeyword(url)
  /\ ~HasTyposquatPrefix(url) /\ ~HasLookalike(url)

\* C7 (as claimed): a URL that is not trusted and matches no earlier rule is
\* classified Scam with reason "Excessive suspicious special characters
\* detected" if and only if it has more than 3 special characters.
C7_SuspiciousReason ==
  (Classified /\ ~Trusted(Url) /\ NoEarlierRule(Url))
  => (Verdict("Scam", "Excessive suspicious special characters detected")
        <=> SpecialCount(Url) > 3)

\* C7 (amended): a URL that is not trusted and for which neither the TLD
\* check nor the keyword check fires is classified Scam with reason
\* "Excessive special characters detected" if and only if it has more than 3
\* special characters.
C7_SpecialBoundary ==
  (Classified /\ ~Trusted(Url) /\ ~SuspiciousTld(Url) /\ ~HasKeyword(Url))
  => (Verdict("Scam", "Excessive special characters detected")
        <=> SpecialCount(Url) > 3)

\* a URL with exactly 4 special characters is flagged by the rule
C7_Witness ==
  /\ Classified /\ ~Trusted(Url) /\ ~SuspiciousTld(Url) /\ ~HasKeyword(Url)
  /\ SpecialCount(Url) = 4
  /\ Verdict("Scam", "Excessive special characters detected")

\* ------------------------------------------------------------------------
\* C8
\* ------------------------------------------------------------------------

\* C8: the vector handed to the classifier has exactly the classifier's
\* recorded feature names, in the recorded order.
C8_Reindexed ==
  \A c \in 1..Len(model_calls) :
     [i \in 1..Len(model_calls[c]) |-> model_calls[c][i].name] = model.feature_names

\* ------------------------------------------------------------------------
\* C9
\* ------------------------------------------------------------------------

PremiumKey ==
  /\ request.api_key.present /\ request.api_key.value # ""
  /\ \E u \in users : u.api_key = request.api_key.value /\ u.is_premium

\* the body is empty or its first element is an object without 'url'
PayloadRejected ==
  \/ request.data.kind = "null"
  \/ request.data.kind = "list" /\ Len(request.data.items) = 0
  \/ /\ request.data.kind = "list" /\ Len(request.data.items) > 0
     /\ request.data.items[1].type = "dict" /\ ~request.data.items[1].has_url

\* C10: in every run of predict the checks come in the order header (401),
\* stored user (401), premium (402), payload (400), each ending the run when
\* it fails; the pipeline runs and a verdict is returned only for the key of
\* a stored premium user.
C10_AccessGate ==
  [][(pc = "pending" /\ pc' = "done") =>
       LET key == request.api_key
           found == {u \in users : u.api_key = key.value}
       IN /\ (~key.present \/ key.value = "") =>
               (response'.status = 401 /\ log' = <<"authorization">>)
          /\ (key.present /\ key.value # "" /\ found = {}) =>
               (response'.status = 401 /\ log' = <<"authorization", "user_lookup">>)
          /\ (key.present /\ key.value # "" /\ found # {} /\ \A u \in found : ~u.is_premium) =>
               (response'.status = 402
                  /\ log' = <<"authorization", "user_lookup", "premium_check">>)
          /\ (PremiumKey /\ PayloadRejected) =>
               (response'.status = 400
                  /\ log' = <<"authorization", "user_lookup", "premium_check", "payload_check">>)
          /\ ~PremiumKey =>
               (/\ response'.results = << >>
                /\ model_calls' = << >>
                /\ \A i \in 1..Len(log') :
                     log'[i] \notin {"is_suspicious", "extract_features", "model.predict"})
          /\ Len(log') >= 5 =>
               SubSeq(log', 1, 4) = <<"authorization", "user_lookup", "premium_check", "payload_check">>
    ]_vars

\* a stored user who is not premium was turned away with 402
C10_Witness ==
  /\ Done /\ response.status = 402
  /\ \E u \in users : u.api_key = request.api_key.value /\ ~u.is_premium
  /\ log = <<"authorization", "user_lookup", "premium_check">>

====
